---- MODULE Spec2Model ----
(***************************************************************************)
(* beets-plexquery: resolution of a Plex playlist into a set of beets      *)
(* paths (beetsplug/plexquery.py) and its exception taxonomy               *)
(* (beetsplug/utils.py).                                                   *)
(*                                                                         *)
(* Python values are records [type, kids, chars]: `type` is the class the  *)
(* isinstance checks look at, `kids` the contained values (list elements,  *)
(* attributes), `chars` the scalar payload (code points of a str, bytes of *)
(* a bytes object, the number of an int).                                  *)
(***************************************************************************)
EXTENDS Integers, Sequences, FiniteSets, TLC

VARIABLES
    remote,               \* the Plex server's answers to each client call
    config,               \* beets configuration as the plugin reads it
    pc,                   \* position in PlexPlaylistItemQuery.__init__ / the call
    plex,                 \* local `plex` of __init__
    library_section_key,  \* local `library_section_key` of __init__
    tracks,               \* local `tracks` of __init__ / argument of the call
    track_paths,          \* self.track_paths
    subvals,              \* what InQuery receives / the `subvals` property
    log,                  \* records emitted on the loggers
    raised,               \* exception that left the constructor / the call
    plex_path,            \* one server path under translation
    translated_path       \* its translation

vars == <<remote, config, pc, plex, library_section_key, tracks, track_paths,
          subvals, log, raised, plex_path, translated_path>>

----------------------------------------------------------------------------
(* Python values *)

PyObj(t, kids, chars) == [type |-> t, kids |-> kids, chars |-> chars]

None == PyObj("NoneType", <<>>, <<>>)
Str(s) == PyObj("str", <<>>, s)
Bytes(b) == PyObj("bytes", <<>>, b)
PyInt(n) == PyObj("int", <<>>, <<n>>)
PyBool(n) == PyObj("bool", <<>>, <<n>>)
List(xs) == PyObj("list", xs, <<>>)
Tuple(xs) == PyObj("tuple", xs, <<>>)

\* plexapi objects: the attributes the plugin reads are the kids
MediaPart(file) == PyObj("MediaPart", <<file>>, <<>>)
Media(parts) == PyObj("Media", <<parts>>, <<>>)
Track(librarySectionID, media) == PyObj("Track", <<media>>, <<librarySectionID>>)
Playlist(guid) == PyObj("Playlist", <<>>, <<guid>>)
LibrarySection(key) == PyObj("LibrarySection", <<key>>, <<>>)

----------------------------------------------------------------------------
(* Exceptions: kind is the class, msg the path named by the message, idx   *)
(* the values formatted into it, cause the chain of __cause__ classes      *)
(* (immediate cause first).                                                *)

Exc(kind, msg, idx, cause) == [kind |-> kind, msg |-> msg, idx |-> idx, cause |-> cause]
NoExc == Exc("", "", <<>>, <<>>)

\* raise K(msg) from e
From(kind, msg, e) == Exc(kind, msg, <<>>, <<e.kind>> \o e.cause)

Return(v) == [ok |-> TRUE, val |-> v, exc |-> NoExc]
Raise(e) == [ok |-> FALSE, val |-> None, exc |-> e]

\* Classes of utils.py, all under _PlexQueryException(Exception)
PlexQueryExceptions == {"utils.NotFound", "utils.ValueError", "utils.UnhandledError"}

\* What the plexapi client and the configuration can raise
ClientErrors == {"exceptions.NotFound", "ConnectionError"}
ExceptionClasses ==
    PlexQueryExceptions \cup ClientErrors
        \cup {"TypeError", "ValueError", "AttributeError", "ConfigError"}

----------------------------------------------------------------------------
(* The remote server: what each client call answers *)

Returns(v) == [raises |-> "", val |-> v]
Raises(kind) == [raises |-> kind, val |-> None]
NotCalled == [raises |-> "not called", val |-> None]

Remote(connect, section, playlists, playlist, items) ==
    [connect |-> connect, section |-> section, playlists |-> playlists,
     playlist |-> playlist, items |-> items]

\* the exception object a client call raises
ClientExc(kind) == Exc(kind, "remote", <<>>, <<>>)

----------------------------------------------------------------------------
(* get_plex_server: PlexServer(baseurl, token, timeout=10), no handler *)

get_plex_server(server) ==
    IF server.connect = "ok" THEN Return(server)
    ELSE Raise(ClientExc(server.connect))

----------------------------------------------------------------------------
(* Tuple unpacking of a loop header `for a, b in xs`: each element is      *)
(* iterated and must yield exactly two values.                             *)

Iterable(x) == x.type \in {"list", "tuple", "str"}

Elements(x) ==
    IF x.type = "str" THEN [i \in 1..Len(x.chars) |-> Str(<<x.chars[i]>>)]
    ELSE x.kids

Unpack2(x) ==
    IF ~Iterable(x)
    THEN Raise(Exc("TypeError", "cannot unpack non-iterable", <<x>>, <<>>))
    ELSE IF Len(Elements(x)) # 2
    THEN Raise(Exc("ValueError", "values to unpack", <<x>>, <<>>))
    ELSE Return(Elements(x))

----------------------------------------------------------------------------
(* get_plex_library_section_key *)

\* the try block
get_plex_library_section_key_try(plex_, library_name_) ==
    LET r == plex_.section IN
    IF r.raises # "" THEN Raise(ClientExc(r.raises))
    ELSE IF r.val.type # "LibrarySection"
    THEN Raise(Exc("utils.ValueError", "section", <<>>, <<>>))
    ELSE LET key == r.val.kids[1] IN
         IF key.type # "int"
         THEN Raise(Exc("utils.ValueError", "section.key", <<key>>, <<>>))
         ELSE Return(key)

\* the except clauses, applied to the outcome r of the try block
get_plex_library_section_key_except(r) ==
    IF r.ok THEN r
    ELSE IF r.exc.kind = "exceptions.NotFound"
    THEN Raise(From("utils.NotFound", "Library not found", r.exc))
    ELSE IF r.exc.kind = "utils.ValueError" THEN r
    ELSE Raise(From("utils.UnhandledError", "access Plex library", r.exc))

get_plex_library_section_key(plex_, library_name_) ==
    get_plex_library_section_key_except(
        get_plex_library_section_key_try(plex_, library_name_))

----------------------------------------------------------------------------
(* get_plex_playlists *)

\* for playlist in playlists: every element must be a Playlist
RECURSIVE ValidPlaylists(_, _, _)
ValidPlaylists(playlists, n, valid_playlists) ==
    IF n > Len(playlists) THEN Return(valid_playlists)
    ELSE IF playlists[n].type # "Playlist"
    THEN Raise(Exc("utils.ValueError", "server.playlists()", <<>>, <<>>))
    ELSE ValidPlaylists(playlists, n + 1, Append(valid_playlists, playlists[n]))

get_plex_playlists_try(plex_, library_section_key_) ==
    LET r == plex_.playlists IN
    IF r.raises # "" THEN Raise(ClientExc(r.raises))
    \* iterating a value that is no sequence is a TypeError
    ELSE IF r.val.type \notin {"list", "tuple"}
    THEN Raise(Exc("TypeError", "not iterable", <<r.val>>, <<>>))
    ELSE ValidPlaylists(r.val.kids, 1, <<>>)

get_plex_playlists_except(r) ==
    IF r.ok THEN r
    ELSE IF r.exc.kind = "utils.ValueError" THEN r
    ELSE Raise(From("utils.UnhandledError", "retrieve Playlists", r.exc))

get_plex_playlists(plex_, library_section_key_) ==
    get_plex_playlists_except(get_plex_playlists_try(plex_, library_section_key_))

----------------------------------------------------------------------------
(* get_plex_playlist *)

\* the try block after `playlists = get_plex_playlists(...)` has ended as
\* `playlists` (a result or an exception)
PlaylistLookup(plex_, playlist_name_, playlists) ==
    IF ~playlists.ok THEN playlists
    ELSE LET playlists_guids ==
                 {playlists.val[i].chars[1] : i \in 1..Len(playlists.val)}
             r == plex_.playlist
         IN  IF r.raises # "" THEN Raise(ClientExc(r.raises))
             ELSE IF r.val.type # "Playlist"
             THEN Raise(Exc("utils.ValueError", "playlist", <<>>, <<>>))
             ELSE IF r.val.chars[1] \notin playlists_guids
             THEN Raise(Exc("utils.ValueError", "playlist.guid", <<r.val>>, <<>>))
             ELSE Return(r.val)

get_plex_playlist_try(plex_, playlist_name_, library_section_key_) ==
    PlaylistLookup(plex_, playlist_name_,
                   get_plex_playlists(plex_, library_section_key_))

get_plex_playlist_except(r) ==
    IF r.ok THEN r
    ELSE IF r.exc.kind = "exceptions.NotFound"
    THEN Raise(From("utils.NotFound", "Playlist not found", r.exc))
    ELSE IF r.exc.kind = "utils.ValueError" THEN r
    ELSE Raise(From("utils.UnhandledError", "access Playlist", r.exc))

get_plex_playlist(plex_, playlist_name_, library_section_key_) ==
    get_plex_playlist_except(
        get_plex_playlist_try(plex_, playlist_name_, library_section_key_))

----------------------------------------------------------------------------
(* get_plex_playlist_tracks *)

\* one pass of `for item_index, item in playlist_items`, the element being
\* unpacked as u
PlaylistItem(u, tracks_) ==
    IF ~u.ok THEN u
    ELSE LET item_index == u.val[1]
             item == u.val[2]
         IN  IF item.type # "Track"
             THEN Raise(Exc("utils.ValueError", "playlist.items[i]",
                            <<item_index>>, <<>>))
             ELSE Return(Append(tracks_, item))

\* the loop: acc is `tracks` so far, or the exception that ended the loop
RECURSIVE PlaylistItemsLoop(_, _, _)
PlaylistItemsLoop(playlist_items, n, acc) ==
    IF ~acc.ok \/ n > Len(playlist_items) THEN acc
    ELSE PlaylistItemsLoop(playlist_items, n + 1,
                           PlaylistItem(Unpack2(playlist_items[n]), acc.val))

\* the try block after `playlist = get_plex_playlist(...)` has ended as
\* `playlist`
PlaylistItems(plex_, playlist_name_, playlist) ==
    IF ~playlist.ok THEN playlist
    ELSE LET r == plex_.items IN
         IF r.raises # "" THEN Raise(ClientExc(r.raises))
         ELSE IF r.val.type # "list"
         THEN Raise(Exc("utils.ValueError", "playlist.items", <<>>, <<>>))
         ELSE PlaylistItemsLoop(r.val.kids, 1, Return(<<>>))

get_plex_playlist_tracks_try(plex_, playlist_name_, library_section_key_) ==
    PlaylistItems(plex_, playlist_name_,
                  get_plex_playlist(plex_, playlist_name_, library_section_key_))

\* (variant: `except utils.ValueError: raise` alone, NotFound falling through
\* to the last clause)
get_plex_playlist_tracks_except_wrapping_NotFound(r) ==
    IF r.ok THEN r
    ELSE IF r.exc.kind = "utils.ValueError" THEN r
    ELSE Raise(From("utils.UnhandledError", "access Items in Playlist", r.exc))

get_plex_playlist_tracks_except(r) ==
    IF r.ok THEN r
    ELSE IF r.exc.kind \in {"utils.NotFound", "utils.ValueError"} THEN r
    ELSE Raise(From("utils.UnhandledError", "access Items in Playlist", r.exc))

get_plex_playlist_tracks(plex_, playlist_name_, library_section_key_) ==
    get_plex_playlist_tracks_except(
        get_plex_playlist_tracks_try(plex_, playlist_name_, library_section_key_))

----------------------------------------------------------------------------
(* Strings are sequences of code points, bytes objects sequences of bytes  *)

\* str.encode("latin-1") succeeds iff every code point is below 256; the
\* bytes are then the code points
Latin1Encodable(s) == \A i \in 1..Len(s) : s[i] < 256

\* bytes.decode("utf-8"), strict: well-formed sequences only (no overlong
\* forms, no surrogates, nothing above U+10FFFF)
RECURSIVE Utf8Decode(_, _, _)
Utf8Decode(b, i, acc) ==
    LET Cont(j, lo, hi) == j <= Len(b) /\ b[j] >= lo /\ b[j] <= hi
        Fail == [ok |-> FALSE, val |-> <<>>]
    IN  IF i > Len(b) THEN [ok |-> TRUE, val |-> acc]
        ELSE IF b[i] < 128 THEN Utf8Decode(b, i + 1, Append(acc, b[i]))
        ELSE IF b[i] >= 194 /\ b[i] <= 223
        THEN IF Cont(i + 1, 128, 191)
             THEN Utf8Decode(b, i + 2,
                      Append(acc, (b[i] - 192) * 64 + (b[i + 1] - 128)))
             ELSE Fail
        ELSE IF b[i] >= 224 /\ b[i] <= 239
        THEN IF /\ Cont(i + 1, IF b[i] = 224 THEN 160 ELSE 128,
                               IF b[i] = 237 THEN 159 ELSE 191)
                /\ Cont(i + 2, 128, 191)
             THEN Utf8Decode(b, i + 3,
                      Append(acc, (b[i] - 224) * 4096 + (b[i + 1] - 128) * 64
                                  + (b[i + 2] - 128)))
             ELSE Fail
        ELSE IF b[i] >= 240 /\ b[i] <= 244
        THEN IF /\ Cont(i + 1, IF b[i] = 240 THEN 144 ELSE 128,
                               IF b[i] = 244 THEN 143 ELSE 191)
                /\ Cont(i + 2, 128, 191)
                /\ Cont(i + 3, 128, 191)
             THEN Utf8Decode(b, i + 4,
                      Append(acc, (b[i] - 240) * 262144 + (b[i + 1] - 128) * 4096
                                  + (b[i + 2] - 128) * 64 + (b[i + 3] - 128)))
             ELSE Fail
        ELSE Fail

\* str.encode("utf-8") of scalar values
RECURSIVE Utf8Encode(_)
Utf8Encode(s) ==
    IF s = <<>> THEN <<>>
    ELSE LET c == Head(s) IN
         (IF c < 128 THEN <<c>>
          ELSE IF c < 2048 THEN <<192 + (c \div 64), 128 + (c % 64)>>
          ELSE IF c < 65536
          THEN <<224 + (c \div 4096), 128 + ((c \div 64) % 64), 128 + (c % 64)>>
          ELSE <<240 + (c \div 262144), 128 + ((c \div 4096) % 64),
                 128 + ((c \div 64) % 64), 128 + (c % 64)>>)
         \o Utf8Encode(Tail(s))

\* str.startswith
StartsWith(s, prefix) ==
    Len(prefix) <= Len(s) /\ SubSeq(s, 1, Len(prefix)) = prefix

\* str.replace(old, new, 1): the first occurrence of old, wherever it is
Replace1(s, old, new) ==
    LET hits == {i \in 1..(Len(s) + 1) :
                    i + Len(old) - 1 <= Len(s) /\ SubSeq(s, i, i + Len(old) - 1) = old}
    IN  IF hits = {} THEN s
        ELSE LET i == CHOOSE h \in hits : \A g \in hits : h <= g
             IN  SubSeq(s, 1, i - 1) \o new \o SubSeq(s, i + Len(old), Len(s))

\* beets.util.bytestring_path on a str: the file system encoding (UTF-8)
bytestring_path(path) == Bytes(Utf8Encode(path))

----------------------------------------------------------------------------
(* get_beets_paths_from_tracks, second half: translation of one path       *)

\* try: x.encode("latin-1").decode("utf-8") except Unicode*Error: x
Decoded(s) ==
    IF Latin1Encodable(s) /\ Utf8Decode(s, 1, <<>>).ok
    THEN Utf8Decode(s, 1, <<>>).val
    ELSE s

\* whether the substitution branch is taken
Mapped(plex_path_, beets_dir, plex_dir) ==
    /\ Decoded(plex_dir) # <<>>
    /\ Decoded(beets_dir) # <<>>
    /\ StartsWith(Decoded(plex_path_), Decoded(plex_dir))

\* the body of `for plex_path in plex_paths`
TranslatedPath(plex_path_, beets_dir, plex_dir) ==
    IF Mapped(plex_path_, beets_dir, plex_dir)
    THEN Replace1(Decoded(plex_path_), Decoded(plex_dir), Decoded(beets_dir))
    ELSE Decoded(plex_path_)

\* a record on a logger
LogRecord(level, text, exc, paths) ==
    [level |-> level, text |-> text, exc |-> exc, paths |-> paths]

\* logger.debug of the loop body: both branches name the original plex_path
DebugRecord(plex_path_, beets_dir, plex_dir) ==
    IF Mapped(plex_path_, beets_dir, plex_dir)
    THEN LogRecord("debug", "Plex path: {} -> {}", NoExc,
                   <<plex_path_, TranslatedPath(plex_path_, beets_dir, plex_dir)>>)
    ELSE LogRecord("debug", "Plex path: {}", NoExc, <<plex_path_>>)

----------------------------------------------------------------------------
(* get_beets_paths_from_tracks, first half: collecting part.file.  Each    *)
(* loop carries acc: `plex_paths` so far, or the exception that ended it.  *)

\* one pass of `for part_index, part in parts`, the element unpacked as u
PartBody(u, track_index, media_index, plex_paths) ==
    IF ~u.ok THEN u
    ELSE LET part_index == u.val[1]
             part == u.val[2]
         IN  IF part.type # "MediaPart"
             THEN Raise(Exc("utils.ValueError", "track[i].media[j].parts[k]",
                            <<track_index, media_index, part_index>>, <<>>))
             ELSE IF part.kids[1].type # "str"
             THEN Raise(Exc("utils.ValueError", "track[i].media[j].parts[k].file",
                            <<track_index, media_index, part_index>>, <<>>))
             ELSE Return(Append(plex_paths, part.kids[1].chars))

RECURSIVE PartsLoop(_, _, _, _, _)
PartsLoop(parts, n, track_index, media_index, acc) ==
    IF ~acc.ok \/ n > Len(parts) THEN acc
    ELSE PartsLoop(parts, n + 1, track_index, media_index,
                   PartBody(Unpack2(parts[n]), track_index, media_index, acc.val))

\* one pass of `for media_index, media in medias`
MediaBody(u, track_index, plex_paths) ==
    IF ~u.ok THEN u
    ELSE LET media_index == u.val[1]
             media == u.val[2]
         IN  IF media.type # "Media"
             THEN Raise(Exc("utils.ValueError", "track[i].media[j]",
                            <<track_index, media_index>>, <<>>))
             ELSE IF media.kids[1].type # "list"
             THEN Raise(Exc("utils.ValueError", "track[i].media[j].parts",
                            <<track_index, media_index>>, <<>>))
             ELSE PartsLoop(media.kids[1].kids, 1, track_index, media_index,
                            Return(plex_paths))

RECURSIVE MediasLoop(_, _, _, _)
MediasLoop(medias, n, track_index, acc) ==
    IF ~acc.ok \/ n > Len(medias) THEN acc
    ELSE MediasLoop(medias, n + 1, track_index,
                    MediaBody(Unpack2(medias[n]), track_index, acc.val))

\* one pass of `for track_index, track in tracks`
TrackBody(u, plex_paths) ==
    IF ~u.ok THEN u
    ELSE LET track_index == u.val[1]
             track == u.val[2]
         IN  \* track.media of a value that has no such attribute
             IF track.type # "Track"
             THEN Raise(Exc("AttributeError", "media", <<track>>, <<>>))
             ELSE IF track.kids[1].type # "list"
             THEN Raise(Exc("utils.ValueError", "track[i].media",
                            <<track_index>>, <<>>))
             ELSE MediasLoop(track.kids[1].kids, 1, track_index, Return(plex_paths))

RECURSIVE TracksLoop(_, _, _)
TracksLoop(tracks_, n, acc) ==
    IF ~acc.ok \/ n > Len(tracks_) THEN acc
    ELSE TracksLoop(tracks_, n + 1, TrackBody(Unpack2(tracks_[n]), acc.val))

\* the second half, plex_paths being the outcome of the first: the
\* translated paths as bytes and the debug records, or the exception
BeetsPaths(plex_paths, beets_dir, plex_dir) ==
    IF ~plex_paths.ok
    THEN [ok |-> FALSE, val |-> <<>>, exc |-> plex_paths.exc, log |-> <<>>]
    ELSE [ok  |-> TRUE,
          val |-> [i \in 1..Len(plex_paths.val) |->
                      bytestring_path(
                          TranslatedPath(plex_paths.val[i], beets_dir, plex_dir))],
          exc |-> NoExc,
          log |-> [i \in 1..Len(plex_paths.val) |->
                      DebugRecord(plex_paths.val[i], beets_dir, plex_dir)]]

\* The whole function (it has no handler of its own)
get_beets_paths_from_tracks(tracks_, beets_dir, plex_dir) ==
    BeetsPaths(TracksLoop(tracks_, 1, Return(<<>>)), beets_dir, plex_dir)

----------------------------------------------------------------------------
(* PlexPlaylistItemQuery *)

\* (variant: the three clauses for the classes of utils.py, without the
\* closing `except Exception`)
InitExcept_without_catch_all(e) ==
    IF e.kind = "utils.NotFound"
    THEN [caught |-> TRUE, record |-> LogRecord("warning", "NotFound exemption", e, <<>>)]
    ELSE IF e.kind = "utils.ValueError"
    THEN [caught |-> TRUE, record |-> LogRecord("error", "ValueError exemption", e, <<>>)]
    ELSE IF e.kind = "utils.UnhandledError"
    THEN [caught |-> TRUE, record |-> LogRecord("error", "UnhandledError exemption", e, <<>>)]
    ELSE [caught |-> FALSE, record |-> LogRecord("", "", e, <<>>)]

\* the except clauses of __init__, in order; every class of the model derives
\* from Exception
InitExcept(e) ==
    IF e.kind = "utils.NotFound"
    THEN [caught |-> TRUE, record |-> LogRecord("warning", "NotFound exemption", e, <<>>)]
    ELSE IF e.kind = "utils.ValueError"
    THEN [caught |-> TRUE, record |-> LogRecord("error", "ValueError exemption", e, <<>>)]
    ELSE IF e.kind = "utils.UnhandledError"
    THEN [caught |-> TRUE, record |-> LogRecord("error", "UnhandledError exemption", e, <<>>)]
    ELSE IF e.kind \in ExceptionClasses
    THEN [caught |-> TRUE, record |-> LogRecord("error", "An unexpected error", e, <<>>)]
    ELSE [caught |-> FALSE, record |-> LogRecord("", "", e, <<>>)]

\* dbcore.query.BLOB_TYPE
BLOB_TYPE(p) == PyObj("memoryview", <<>>, p.chars)

\* a configuration view that cannot be read
ConfigExc(view) == Exc("ConfigError", view, <<>>, <<>>)

\* the constructor's argument and beets.config["plex"]["library_name"]
playlist_name == "playlist"
library_name == "library_name"

\* leaving the try block with exception e
Except(e) ==
    IF InitExcept(e).caught
    THEN /\ log' = Append(log, InitExcept(e).record)
         /\ pc' = "super"
         /\ raised' = raised
    ELSE /\ raised' = e
         /\ pc' = "raised"
         /\ log' = log

\* plex = get_plex_server(beets.config["plex"][...])
GetPlexServer ==
    /\ pc = "get_plex_server"
    /\ \E r \in {IF config.status = "plex" THEN Raise(ConfigExc("plex"))
                ELSE get_plex_server(remote)} :
           IF r.ok
           THEN /\ plex' = r.val
                /\ pc' = "get_plex_library_section_key"
                /\ UNCHANGED <<log, raised>>
           ELSE Except(r.exc) /\ UNCHANGED plex
    /\ UNCHANGED <<remote, config, library_section_key, tracks, track_paths,
                   subvals, plex_path, translated_path>>

\* library_section_key = get_plex_library_section_key(plex, config library_name)
GetPlexLibrarySectionKey ==
    /\ pc = "get_plex_library_section_key"
    /\ \E r \in {IF config.status = "library_name"
                THEN Raise(ConfigExc("library_name"))
                ELSE get_plex_library_section_key(plex, library_name)} :
           IF r.ok
           THEN /\ library_section_key' = r.val
                /\ pc' = "get_plex_playlist_tracks"
                /\ UNCHANGED <<log, raised>>
           ELSE Except(r.exc) /\ UNCHANGED library_section_key
    /\ UNCHANGED <<remote, config, plex, tracks, track_paths, subvals,
                   plex_path, translated_path>>

\* tracks = get_plex_playlist_tracks(plex, playlist_name, library_section_key)
GetPlexPlaylistTracks ==
    /\ pc = "get_plex_playlist_tracks"
    /\ \E r \in {get_plex_playlist_tracks(plex, playlist_name, library_section_key)} :
           IF r.ok
           THEN /\ tracks' = r.val
                /\ pc' = "get_beets_paths_from_tracks"
                /\ UNCHANGED <<log, raised>>
           ELSE Except(r.exc) /\ UNCHANGED tracks
    /\ UNCHANGED <<remote, config, plex, library_section_key, track_paths,
                   subvals, plex_path, translated_path>>

\* self.track_paths = get_beets_paths_from_tracks(tracks, directory, plex_dir, log)
GetBeetsPathsFromTracks ==
    /\ pc = "get_beets_paths_from_tracks"
    /\ \E r \in {IF config.status = "paths"
                THEN [ok |-> FALSE, val |-> <<>>, exc |-> ConfigExc("paths"), log |-> <<>>]
                ELSE get_beets_paths_from_tracks(tracks, config.directory,
                                                 config.plex_dir)} :
           IF r.ok
           THEN /\ track_paths' = r.val
                /\ log' = log \o r.log
                /\ pc' = "super"
                /\ UNCHANGED raised
           ELSE Except(r.exc) /\ UNCHANGED track_paths
    /\ UNCHANGED <<remote, config, plex, library_section_key, tracks, subvals,
                   plex_path, translated_path>>

\* super().__init__("path", self.track_paths)
SuperInit ==
    /\ pc = "super"
    /\ subvals' = [i \in 1..Len(track_paths) |-> BLOB_TYPE(track_paths[i])]
    /\ pc' = "done"
    /\ UNCHANGED <<remote, config, plex, library_section_key, tracks, track_paths,
                   log, raised, plex_path, translated_path>>

----------------------------------------------------------------------------
(* Inputs.  Strings are written as code points:                            *)
(*   /p = 47 112    /b = 47 98    /p/a = 47 112 47 97    /p/b = 47 112 47 98 *)
(*   /x = 47 120                                                           *)

MaxItems == 2

SeqsUpTo(S, n) == UNION {[1..k -> S] : k \in 0..n}

Config(status, directory, plex_dir) ==
    [status |-> status, directory |-> directory, plex_dir |-> plex_dir]

\* directory = /b with plex_dir = /p, or plex_dir left at its default "";
\* or one of the configuration reads of __init__ fails
Configs ==
    { Config("ok", <<47, 98>>, <<47, 112>>),
      Config("ok", <<47, 98>>, <<>>),
      Config("plex", <<>>, <<>>),
      Config("library_name", <<>>, <<>>),
      Config("paths", <<>>, <<>>) }

FileA == Str(<<47, 112, 47, 97>>)
FileB == Str(<<47, 112, 47, 98>>)
FileX == Str(<<47, 120>>)

\* well-formed tracks of library sections 1 and 2
TrackA == Track(1, List(<<Media(List(<<MediaPart(FileA)>>))>>))
TrackB == Track(2, List(<<Media(List(<<MediaPart(FileB), MediaPart(FileA)>>))>>))
TrackX == Track(1, List(<<Media(List(<<MediaPart(FileX)>>)),
                          Media(List(<<MediaPart(Str(<<>>))>>))>>))

WellFormedItems == {TrackA, TrackB, TrackX}

\* one shape mismatch each, from the item down to the file
MalformedItems ==
    { None,
      Track(1, None),
      Track(1, List(<<None>>)),
      Track(1, List(<<Media(None)>>)),
      Track(1, List(<<Media(List(<<None>>))>>)),
      Track(1, List(<<Media(List(<<MediaPart(None)>>))>>)) }

\* an element the loop header of get_plex_playlist_tracks can unpack
PairedItems == { Tuple(<<PyInt(0), TrackA>>) }

ItemSamples == WellFormedItems \cup MalformedItems \cup PairedItems

ConnectOutcomes == {"ok"} \cup ClientErrors

SectionResponses ==
    { Returns(LibrarySection(PyInt(1))), Returns(LibrarySection(PyInt(2))),
      Returns(LibrarySection(PyBool(1))), Returns(LibrarySection(Str(<<49>>))),
      Returns(None) }
    \cup {Raises(k) : k \in ClientErrors}

PlaylistsResponses ==
    { Returns(List(<<>>)), Returns(List(<<Playlist(1)>>)),
      Returns(List(<<Playlist(1), Playlist(2)>>)),
      Returns(List(<<Playlist(1), None>>)) }
    \cup {Raises(k) : k \in ClientErrors}

PlaylistResponses ==
    { Returns(Playlist(1)), Returns(Playlist(2)), Returns(None) }
    \cup {Raises(k) : k \in ClientErrors}

ItemsResponses ==
    {Returns(List(xs)) : xs \in SeqsUpTo(ItemSamples, MaxItems)}
    \cup {Returns(None), Returns(Tuple(<<TrackA>>))}
    \cup {Raises(k) : k \in ClientErrors}

\* Servers, one per course the resolution can take: a call the resolution
\* never makes has no answer (NotCalled).  StageN holds the servers whose
\* first N calls are answered.
SectionKeyOf(server) == get_plex_library_section_key(server, library_name)
ReachesListing(server) == SectionKeyOf(server).ok
ReachesLookup(server) == get_plex_playlists(server, SectionKeyOf(server).val).ok
ReachesItems(server) ==
    get_plex_playlist(server, playlist_name, SectionKeyOf(server).val).ok

Stage1 ==
    {Remote(c, NotCalled, NotCalled, NotCalled, NotCalled) : c \in ConnectOutcomes}
Stage2 ==
    {[server EXCEPT !.section = s] :
        server \in {x \in Stage1 : x.connect = "ok"}, s \in SectionResponses}
Stage3 ==
    {[server EXCEPT !.playlists = p] :
        server \in {x \in Stage2 : ReachesListing(x)}, p \in PlaylistsResponses}
Stage4 ==
    {[server EXCEPT !.playlist = q] :
        server \in {x \in Stage3 : ReachesLookup(x)}, q \in PlaylistResponses}
Stage5 ==
    {[server EXCEPT !.items = i] :
        server \in {x \in Stage4 : ReachesItems(x)}, i \in ItemsResponses}

Servers ==
    {x \in Stage1 : x.connect # "ok"}
    \cup {x \in Stage2 : ~ReachesListing(x)}
    \cup {x \in Stage3 : ~ReachesLookup(x)}
    \cup {x \in Stage4 : ~ReachesItems(x)}
    \cup Stage5

----------------------------------------------------------------------------
(* Construction of one PlexPlaylistItemQuery *)

Init ==
    /\ remote \in Servers
    /\ config \in Configs
    /\ pc = "get_plex_server"
    /\ plex = None
    /\ library_section_key = None
    /\ tracks = <<>>
    /\ track_paths = <<>>
    /\ subvals = <<>>
    /\ log = <<>>
    /\ raised = NoExc
    /\ plex_path = <<>>
    /\ translated_path = <<>>

Next ==
    \/ GetPlexServer
    \/ GetPlexLibrarySectionKey
    \/ GetPlexPlaylistTracks
    \/ GetBeetsPathsFromTracks
    \/ SuperInit

Spec == Init /\ [][Next]_vars

----------------------------------------------------------------------------
(* A direct call of get_beets_paths_from_tracks.  Its loop headers unpack  *)
(* every element into (index, value), so the arguments that get past them  *)
(* are index-paired lists; a list of bare Track objects is among the       *)
(* arguments too.                                                          *)

MaxTracks == 2
MaxParts == 2

\* list(enumerate(xs))
Enumerated(xs) == [i \in 1..Len(xs) |-> Tuple(<<PyInt(i - 1), xs[i]>>)]

FileSamples == {FileA, FileB, FileX, Str(<<>>), None}

PartsSamples ==
    {List(Enumerated(ps)) :
        ps \in SeqsUpTo({MediaPart(f) : f \in FileSamples}, MaxParts)}

MediaSamples == {Media(ps) : ps \in PartsSamples} \cup {Media(None)}

MediasSamples ==
    {List(Enumerated(<<m>>)) : m \in MediaSamples} \cup {List(<<>>), None}

TrackArguments ==
    {Track(1, ms) : ms \in MediasSamples} \cup {None}

TracksArguments ==
    {Enumerated(ts) : ts \in SeqsUpTo(TrackArguments, MaxTracks)}
    \cup {<<TrackA>>, <<TrackA, TrackB>>}

InitPaths ==
    /\ tracks \in TracksArguments
    /\ config \in {c \in Configs : c.status = "ok"}
    /\ pc = "call"
    /\ remote = Remote("ok", NotCalled, NotCalled, NotCalled, NotCalled)
    /\ plex = None
    /\ library_section_key = None
    /\ track_paths = <<>>
    /\ subvals = <<>>
    /\ log = <<>>
    /\ raised = NoExc
    /\ plex_path = <<>>
    /\ translated_path = <<>>

\* get_beets_paths_from_tracks(tracks, beets_dir, plex_dir, logger)
CallGetBeetsPaths ==
    /\ pc = "call"
    /\ \E r \in {get_beets_paths_from_tracks(tracks, config.directory, config.plex_dir)} :
           IF r.ok
           THEN /\ track_paths' = r.val
                /\ log' = r.log
                /\ pc' = "returned"
                /\ UNCHANGED raised
           ELSE /\ raised' = r.exc
                /\ pc' = "raised"
                /\ UNCHANGED <<track_paths, log>>
    /\ UNCHANGED <<remote, config, plex, library_section_key, tracks, subvals,
                   plex_path, translated_path>>

NextPaths == CallGetBeetsPaths

SpecPaths == InitPaths /\ [][NextPaths]_vars

----------------------------------------------------------------------------
(* The translation of one path (one pass of the second loop of             *)
(* get_beets_paths_from_tracks) on every short string over                 *)
(*   / = 47   a = 97   U+00C3 = 195   U+00A9 = 169   U+20AC = 8364         *)
(* U+00C3 U+00A9 is what the UTF-8 bytes of U+00E9 read as Latin-1.        *)

MaxPathLen == 3
MaxRootLen == 2

PathSamples == SeqsUpTo({47, 97, 195, 169, 8364}, MaxPathLen)
RemoteRoots == SeqsUpTo({47, 195, 169}, MaxRootLen)
LocalRoots == {<<>>, <<47, 98>>, <<195, 169>>}

InitTranslate ==
    /\ plex_path \in PathSamples
    /\ config \in {Config("ok", l, r) : l \in LocalRoots, r \in RemoteRoots}
    /\ pc = "translate"
    /\ translated_path = <<>>
    /\ remote = Remote("ok", NotCalled, NotCalled, NotCalled, NotCalled)
    /\ plex = None
    /\ library_section_key = None
    /\ tracks = <<>>
    /\ track_paths = <<>>
    /\ subvals = <<>>
    /\ log = <<>>
    /\ raised = NoExc

TranslatePath ==
    /\ pc = "translate"
    /\ translated_path' = TranslatedPath(plex_path, config.directory, config.plex_dir)
    /\ log' = <<DebugRecord(plex_path, config.directory, config.plex_dir)>>
    /\ pc' = "translated"
    /\ UNCHANGED <<remote, config, plex, library_section_key, tracks, track_paths,
                   subvals, raised, plex_path>>

NextTranslate == TranslatePath

SpecTranslate == InitTranslate /\ [][NextTranslate]_vars

----------------------------------------------------------------------------
(* Properties *)

\* the records of the handlers of __init__
Failures == SelectSeq(log, LAMBDA rec : rec.level \in {"warning", "error"})

\* the calls of __init__ that were made
ConnectMade == config.status # "plex"
SectionLookupMade == ConnectMade /\ remote.section # NotCalled /\ config.status # "library_name"
PlaylistLookupMade == SectionLookupMade /\ remote.playlist # NotCalled
ItemsReturned == SectionLookupMade /\ remote.items # NotCalled /\ remote.items.raises = ""

\* C1: the constructor never lets an exception out: no state has an exception
\* leaving it, every state before the end has a next step, and once any stage
\* has failed (whatever the class of the exception) the path set stays empty,
\* as does what InQuery receives.
C1_ConstructionNeverRaises ==
    /\ pc # "raised"
    /\ raised = NoExc
    /\ (pc # "done" => ENABLED Next)
    /\ (Failures # <<>> => track_paths = <<>> /\ subvals = <<>>)

\* C1 witness: a TypeError out of the path extraction, a class none of the
\* three named clauses catches, ended in a completed query without paths
C1_Witness ==
    /\ pc = "done"
    /\ Len(Failures) = 1
    /\ Failures[1].exc.kind = "TypeError"
    /\ tracks # <<>>
    /\ track_paths = <<>>
    /\ subvals = <<>>

\* C6: when the section lookup or the playlist lookup raises the client's
\* NotFound, the constructor handles utils.NotFound (its warning clause),
\* whose cause is the client's exception: no helper on the way reclassified it.
C6_NotFoundKeepsItsKind ==
    (pc = "done" /\ \/ (SectionLookupMade /\ remote.section.raises = "exceptions.NotFound")
                    \/ (PlaylistLookupMade /\ remote.playlist.raises = "exceptions.NotFound"))
    => /\ Len(Failures) = 1
       /\ Failures[1].level = "warning"
       /\ Failures[1].exc.kind = "utils.NotFound"
       /\ Failures[1].exc.cause = <<"exceptions.NotFound">>

\* C6 witness: the playlist lookup raised NotFound, through three helpers
C6_Witness ==
    /\ pc = "done"
    /\ PlaylistLookupMade
    /\ remote.playlist.raises = "exceptions.NotFound"
    /\ Failures[1].exc.kind = "utils.NotFound"

\* the shapes the claims call well-formed
WellFormedPart(part) == part.type = "MediaPart" /\ part.kids[1].type = "str"
WellFormedMedia(media) ==
    /\ media.type = "Media"
    /\ media.kids[1].type = "list"
    /\ \A k \in 1..Len(media.kids[1].kids) : WellFormedPart(media.kids[1].kids[k])
WellFormedTrack(track) ==
    /\ track.type = "Track"
    /\ track.kids[1].type = "list"
    /\ \A j \in 1..Len(track.kids[1].kids) : WellFormedMedia(track.kids[1].kids[j])
WellFormedPlaylist ==
    /\ ItemsReturned
    /\ remote.items.val.type = "list"
    /\ \A i \in 1..Len(remote.items.val.kids) : WellFormedTrack(remote.items.val.kids[i])

RECURSIVE Flatten(_)
Flatten(ss) == IF ss = <<>> THEN <<>> ELSE Head(ss) \o Flatten(Tail(ss))

\* the files of well-formed tracks: track, then media, then part
PartFiles(media) ==
    [k \in 1..Len(media.kids[1].kids) |-> media.kids[1].kids[k].kids[1].chars]
MediaFiles(track) ==
    Flatten([j \in 1..Len(track.kids[1].kids) |-> PartFiles(track.kids[1].kids[j])])
TrackFiles(items) == Flatten([i \in 1..Len(items) |-> MediaFiles(items[i])])

\* their translation under the configuration
Translated(files) ==
    [i \in 1..Len(files) |->
        bytestring_path(TranslatedPath(files[i], config.directory, config.plex_dir))]

\* C2: a well-formed playlist of the configured section resolves to the
\* translated file of every part of every media of every item, in order.
C2_WellFormedPlaylistResolves ==
    (pc = "done" /\ config.status = "ok" /\ WellFormedPlaylist)
    => /\ Failures = <<>>
       /\ track_paths = Translated(TrackFiles(remote.items.val.kids))

InSection(track) == track.chars[1] = library_section_key.chars[1]

Range(f) == {f[i] : i \in DOMAIN f}

\* C7: of a well-formed playlist whose items span several sections, the
\* items of the configured section, and only they, give the paths; the
\* others are dropped without a failure.
C7_SectionFilter ==
    (/\ pc = "done" /\ config.status = "ok" /\ WellFormedPlaylist
     /\ Cardinality({t.chars[1] : t \in Range(remote.items.val.kids)}) > 1)
    => /\ Failures = <<>>
       /\ Range(track_paths)
            = Range(Translated(TrackFiles(SelectSeq(remote.items.val.kids, InSection))))

\* the paths at which the answer of playlist.items() has the wrong shape
PartMismatches(part) ==
    IF part.type # "MediaPart" THEN {"track[i].media[j].parts[k]"}
    ELSE IF part.kids[1].type # "str" THEN {"track[i].media[j].parts[k].file"}
    ELSE {}
MediaMismatches(media) ==
    IF media.type # "Media" THEN {"track[i].media[j]"}
    ELSE IF media.kids[1].type # "list" THEN {"track[i].media[j].parts"}
    ELSE UNION {PartMismatches(p) : p \in Range(media.kids[1].kids)}
ItemMismatches(item) ==
    IF item.type # "Track" THEN {"playlist.items[i]"}
    ELSE IF item.kids[1].type # "list" THEN {"track[i].media"}
    ELSE UNION {MediaMismatches(m) : m \in Range(item.kids[1].kids)}
Mismatches(items) ==
    IF items.type # "list" THEN {"playlist.items"}
    ELSE UNION {ItemMismatches(x) : x \in Range(items.kids)}

\* C5: a malformed answer, at whatever level, ends the resolution with
\* utils.ValueError naming a path that is malformed, and with nothing else.
C5_MalformedIsValueError ==
    (pc = "done" /\ config.status = "ok" /\ ItemsReturned
     /\ Mismatches(remote.items.val) # {})
    => /\ Len(Failures) = 1
       /\ Failures[1].exc.kind = "utils.ValueError"
       /\ Failures[1].exc.msg \in Mismatches(remote.items.val)

\* the class an exception chain started from
RootCause(e) == IF e.cause = <<>> THEN e.kind ELSE e.cause[Len(e.cause)]

\* C10: a failure that started as an error of the client outside the
\* taxonomy (a ConnectionError) is handled as utils.UnhandledError whose
\* cause is that error itself.
C10_ClientErrorsWrappedOnce ==
    \A i \in 1..Len(Failures) :
        RootCause(Failures[i].exc) = "ConnectionError"
        => /\ Failures[i].exc.kind = "utils.UnhandledError"
           /\ Failures[i].exc.cause = <<"ConnectionError">>

\* the files a returned call of get_beets_paths_from_tracks went through
\* (what it returned for passed every check, so every element is a pair)
ArgumentFiles ==
    Flatten([i \in 1..Len(tracks) |->
        Flatten([j \in 1..Len(tracks[i].kids[2].kids[1].kids) |->
            LET media == tracks[i].kids[2].kids[1].kids[j].kids[2] IN
            [k \in 1..Len(media.kids[1].kids) |->
                media.kids[1].kids[k].kids[2].kids[1].chars]])])

RECURSIVE FirstOccurrences(_)
FirstOccurrences(xs) ==
    IF xs = <<>> THEN <<>>
    ELSE LET front == FirstOccurrences(SubSeq(xs, 1, Len(xs) - 1)) IN
         IF xs[Len(xs)] \in Range(front) THEN front ELSE Append(front, xs[Len(xs)])

C3_PrefixSubstitution ==
    (/\ pc = "translated"
     /\ config.plex_dir # <<>> /\ config.directory # <<>>
     /\ StartsWith(plex_path, config.plex_dir))
    => translated_path
         = config.directory \o SubSeq(plex_path, Len(config.plex_dir) + 1, Len(plex_path))

\* C4: with an empty root, or a path that does not start with the remote
\* root, the translation is the path itself.
C4_IdentityFallback ==
    (/\ pc = "translated"
     /\ \/ config.plex_dir = <<>>
        \/ config.directory = <<>>
        \/ ~StartsWith(plex_path, config.plex_dir))
    => translated_path = plex_path
====
